---- MODULE Spec2Model ----
(***************************************************************************)
(* Model of the telegram news bot (src/main.py, src/config.py): startup in *)
(* main(), NewsBot.start_scheduler with its two topics, the fetchers with  *)
(* their duplicate scan over posted_crypto_news / posted_sports_news, and  *)
(* _send_to_all_groups.                                                    *)
(*                                                                         *)
(* Texts are sequences of character codes (0 is a blank).  Time is in      *)
(* seconds, as time.time() and asyncio.sleep count it; sleeps take exactly *)
(* their argument, a request or a send takes the time its step is given.   *)
(***************************************************************************)
EXTENDS Integers, Sequences, FiniteSets, TLC

\* ---------------------------------------------------------------- bounds
MaxCandidates == 2
MaxTime == 3700
MaxCycles == 2
MaxEntries == 2
MaxFetchTime == 1
StartTime == 1700000000

\* ------------------------------------------------------ program constants
CRYPTO_INTERVAL == 60
SPORTS_INTERVAL == 30
K == 20
HashPrefixLen == 100
DescBudget == 250
InitialPause == 10
TickPause == 30
PacingDelay == 1

Topics == {"crypto", "sports"}

\* ------------------------------------------------------------------ texts
Blank == 0
Underscore == 95
Ellipsis == <<46, 46, 46>>
Removed == <<91, 82, 93>>

RECURSIVE LStrip(_)
LStrip(s) == IF s # <<>> /\ Head(s) = Blank THEN LStrip(Tail(s)) ELSE s

RECURSIVE RStrip(_)
RStrip(s) ==
    IF s # <<>> /\ s[Len(s)] = Blank THEN RStrip(SubSeq(s, 1, Len(s) - 1)) ELSE s

Strip(s) == RStrip(LStrip(s))

Prefix(s, n) == IF Len(s) > n THEN SubSeq(s, 1, n) ELSE s

\* md5 is taken as injective: the digest is identified with the digested text.
create_news_hash(title, description) ==
    Prefix(title \o <<Underscore>> \o description, HashPrefixLen)

Truncate(desc) ==
    IF Len(desc) > DescBudget THEN SubSeq(desc, 1, DescBudget) \o Ellipsis ELSE desc


\* --------------------------------------------------------- configuration
\* The environment config.py reads.  BOT_TOKEN and NEWS_API_KEY are unset
\* (os.getenv gives None), empty or set.  GROUP_IDS is a text cut at its
\* commas into entries: a number (with blanks around it), blanks only, or
\* something int() does not accept.
EnvValues == {"unset", "empty", "set"}

NumEntry(n) == [kind |-> "num", val |-> n]
BlankEntry == [kind |-> "blank", val |-> 0]
WordEntry == [kind |-> "word", val |-> 0]

EntriesAt(i) == { NumEntry(100 + i), NumEntry(-(100 + i)), BlankEntry, WordEntry }

EnvGroupIds ==
    UNION { { e \in [1..m -> UNION { EntriesAt(i) : i \in 1..m }] :
                \A i \in 1..m : e[i] \in EntriesAt(i) } : m \in 0..MaxEntries }

Envs == [token : EnvValues, ids : EnvGroupIds, key : EnvValues]

\* if not BOT_TOKEN, if not NEWS_API_KEY: None and '' are both false.
Truthy(v) == v = "set"

\* GROUP_IDS = [int(g.strip()) for g in ....split(',') if g.strip()]: the
\* numbers of the non-blank entries, in order, as ints; int() raises
\* ValueError on an entry that is no number and the import fails.
LoadRaises(entries) == \E i \in 1..Len(entries) : entries[i].kind = "word"

RECURSIVE LoadGroupIds(_)
LoadGroupIds(entries) ==
    IF entries = <<>> THEN <<>>
    ELSE IF Head(entries).kind = "blank" THEN LoadGroupIds(Tail(entries))
    ELSE <<Head(entries).val>> \o LoadGroupIds(Tail(entries))

\* self.group_ids = [int(gid.strip()) for gid in GROUP_IDS if gid.strip()]:
\* the entries of GROUP_IDS are ints, an int has no strip(), so the first
\* entry raises AttributeError; only the empty list is gone through.
ConstructorRaises(ids) == ids # <<>>
ParseGroupIds(ids) == <<>>

\* ---------------------------------------------------------------- articles
NullText == <<-1>>

Art(i, img) == [title |-> <<i>>, desc |-> <<Blank, 1, Blank>>, img |-> img]
NoTitleArt == [title |-> <<Blank>>, desc |-> <<1>>, img |-> "url"]
RemovedArt == [title |-> <<1>>, desc |-> Removed, img |-> "url"]
NullDescArt == [title |-> <<1>>, desc |-> NullText, img |-> "url"]

ArtHash(a) == create_news_hash(Strip(a.title), Strip(a.desc))

SeqsUpTo(S, n) == UNION { [1..m -> S] : m \in 0..n }

\* What the source answers: a transport error or an unreadable body, a status
\* other than 200, or a list of articles.
Responses(feeds) ==
    { [status |-> "error", articles |-> <<>>], [status |-> "bad", articles |-> <<>>] }
    \cup { [status |-> "ok", articles |-> c] : c \in feeds }

TickFeeds ==
    SeqsUpTo({ Art(1, "url") }, MaxCandidates)
    \cup { <<RemovedArt>>, <<NullDescArt, Art(1, "url")>> }

PostingFeeds ==
    SeqsUpTo({ Art(K, "url"), Art(K + 1, "empty") }, MaxCandidates)
    \cup { <<NoTitleArt>>, <<NoTitleArt, Art(K + 1, "empty")>> }

\* ---------------------------------------------------------------- messages
NoMessage == [kind |-> "none", topic |-> "none", title |-> <<>>, desc |-> <<>>]
Fallback(t) == [kind |-> "fallback", topic |-> t, title |-> <<>>, desc |-> <<>>]
Welcome == [kind |-> "welcome", topic |-> "welcome", title |-> <<>>, desc |-> <<>>]
ArticleMessage(t, title, desc) ==
    [kind |-> "article", topic |-> t, title |-> title, desc |-> Truncate(desc)]

\* article.get(key, self.get_image_url(topic)): the pool image when the key
\* is absent, the key's value (possibly empty or null) when it is present.
ArticleImage(a) == IF a.img = "empty" THEN "none" ELSE "url"

Interval(t) == IF t = "crypto" THEN CRYPTO_INTERVAL * 60 ELSE SPORTS_INTERVAL * 60

VARIABLES
    BOT_TOKEN, GROUP_IDS, NEWS_API_KEY,
    group_ids, running, posted_crypto_news, posted_sports_news,
    crypto_order, sports_order,
    pc, ret, news_type, cands, pos, message, image_url,
    idx, success_count, log,
    last_crypto, last_sports, current_time, now,
    fired, before, prev_feed, cycles,
    decided, response, connected, delivered

config == <<BOT_TOKEN, GROUP_IDS, NEWS_API_KEY>>
dedup == <<posted_crypto_news, posted_sports_news, crypto_order, sports_order>>
sched == <<last_crypto, last_sports, current_time>>
send == <<idx, success_count, log>>
scan == <<cands, pos>>
hist == <<fired, before, prev_feed>>
aux == <<decided, response, connected, delivered>>
vars == <<config, group_ids, running, dedup, pc, ret, news_type, scan, message,
          image_url, send, sched, now, hist, cycles, aux>>

Posted(t) == IF t = "crypto" THEN posted_crypto_news ELSE posted_sports_news
Order(t) == IF t = "crypto" THEN crypto_order ELSE sports_order
LastFired(t) == IF t = "crypto" THEN last_crypto ELSE last_sports

\* ------------------------------------------------------------------ dedup
\* A scan that takes every candidate for new.
IsDuplicateNever(news_hash, posted) == FALSE

IsDuplicate(news_hash, posted) == news_hash \in posted

\* The candidate is skipped before its hash is looked at (lines 86, 153).
Unusable(t, title, desc) ==
    title = <<>> \/ desc = <<>> \/ (t = "sports" /\ desc = Removed)

\* A record that never cuts the set back.
RecordUncut(posted, news_hash) == { posted \cup {news_hash} }

\* posted.add(news_hash); if len(posted) > 20: posted = set(list(posted)[-20:]).
\* A set has no insertion order: list(posted) is the hash table's order, so
\* the entries cut off may be any of the entries held.  The sets this can
\* leave (posted never holds more than K entries before the add, so at most
\* one entry is cut off).
Record(posted, news_hash) ==
    LET added == posted \cup {news_hash}
    IN  IF Cardinality(added) > K
        THEN { added \ {e} : e \in added }
        ELSE { added }

\* History: the hashes still held, in the order they were added.
Remember(order, news_hash, kept) ==
    SelectSeq(Append(order, news_hash), LAMBDA h : h \in kept)

\* --------------------------------------------------------------- dispatch
\* What happened at one destination so far: the send_photo and send_message
\* calls.  The first send is a photo when there is an image, a text when
\* there is none; the text after a failed photo is the second.
FirstOutcome(img, ok) ==
    IF img = "url"
    THEN [photo |-> IF ok THEN "ok" ELSE "fail", text |-> "none"]
    ELSE [photo |-> "none", text |-> IF ok THEN "ok" ELSE "fail"]

SecondOutcome(ok) == [photo |-> "fail", text |-> IF ok THEN "ok" ELSE "fail"]

FirstSendOk(o) == o.photo = "ok" \/ (o.photo = "none" /\ o.text = "ok")
FallbackOk(o) == o.photo = "fail" /\ o.text = "ok"

\* success_count += 1 (lines 263 and 278).
Counted(o) == FirstSendOk(o) \/ FallbackOk(o)

\* await asyncio.sleep(1) sits in the try block, after the first send.
Paced(o) == FirstSendOk(o)

\* The destination the loop visits after destination i.
NextDest(i, o) == i + 1

StartDispatch(msg, img, type, r) ==
    /\ message' = msg
    /\ image_url' = img
    /\ news_type' = type
    /\ ret' = r
    /\ idx' = 1
    /\ success_count' = 0
    /\ log' = <<>>
    /\ pc' = "send"

\* The body of the for loop (SendFirst, Pace, SendTextOnly) runs once per
\* entry of group_ids.  A constructed bot has none (ConstructorRaises), so no
\* specification below takes these steps.
\*
\* The awaited first send to group_ids[idx] returns or raises, after d
\* seconds; a success is counted and followed by the pause, a failed photo
\* by the text-only send, a failed text by the next destination.
SendFirst(ok, d) ==
    /\ pc = "send"
    /\ idx <= Len(group_ids)
    /\ LET o == FirstOutcome(image_url, ok)
       IN  /\ log' = Append(log, [dest |-> group_ids[idx], result |-> o,
                                  at |-> now, done |-> now + d])
           /\ success_count' = success_count + (IF Counted(o) THEN 1 ELSE 0)
           /\ IF Paced(o)
              THEN pc' = "pause" /\ idx' = idx
              ELSE IF o.photo = "fail"
              THEN pc' = "retry" /\ idx' = idx
              ELSE pc' = "send" /\ idx' = NextDest(idx, o)
    /\ now' = now + d
    /\ UNCHANGED <<config, group_ids, running, dedup, ret, news_type, scan,
                   message, image_url, sched, hist, cycles, aux>>

\* await asyncio.sleep(1) returns.
Pace ==
    /\ pc = "pause"
    /\ now' = now + PacingDelay
    /\ idx' = NextDest(idx, log[Len(log)].result)
    /\ pc' = "send"
    /\ UNCHANGED <<config, group_ids, running, dedup, ret, news_type, scan,
                   message, image_url, success_count, log, sched, hist, cycles,
                   aux>>

\* The awaited text-only send after a failed photo returns or raises.
SendTextOnly(ok, d) ==
    /\ pc = "retry"
    /\ LET o == SecondOutcome(ok)
       IN  /\ log' = [log EXCEPT ![Len(log)].result = o, ![Len(log)].done = now + d]
           /\ success_count' = success_count + (IF Counted(o) THEN 1 ELSE 0)
           /\ idx' = NextDest(idx, o)
    /\ now' = now + d
    /\ pc' = "send"
    /\ UNCHANGED <<config, group_ids, running, dedup, ret, news_type, scan,
                   message, image_url, sched, hist, cycles, aux>>

SendDone ==
    /\ pc = "send"
    /\ idx > Len(group_ids)
    /\ pc' = "send_done"
    /\ UNCHANGED <<config, group_ids, running, dedup, ret, news_type, scan,
                   message, image_url, send, sched, now, hist, cycles, aux>>

\* _send_to_all_groups and the post operation that called it return; their
\* locals are gone.  feeds is the history of returned feeds after the return.
Leave(feeds) ==
    /\ pc = "send_done"
    /\ pc' = ret
    /\ ret' = "none"
    /\ news_type' = "none"
    /\ cands' = <<>>
    /\ pos' = 0
    /\ message' = NoMessage
    /\ image_url' = "none"
    /\ idx' = 0
    /\ success_count' = 0
    /\ log' = <<>>
    /\ before' = {}
    /\ prev_feed' = feeds
    /\ response' = "none"
    /\ delivered' = (IF ret \in {"set_crypto", "set_sports"}
                     THEN [delivered EXCEPT ![news_type] = success_count]
                     ELSE delivered)
    /\ UNCHANGED <<config, group_ids, running, dedup, sched, now, fired, cycles,
                   decided, connected>>

Return == Leave(prev_feed)

\* ------------------------------------------------------------------ fetch
CallPost(t, r) ==
    /\ pc' = "fetch"
    /\ news_type' = t
    /\ ret' = r
    /\ cands' = <<>>
    /\ pos' = 0
    /\ message' = NoMessage
    /\ image_url' = "none"
    /\ before' = Posted(t)

\* return None, None
NoContent ==
    /\ message' = NoMessage
    /\ image_url' = "none"
    /\ pc' = "post"

\* A request whose exception is not caught by fetch_*_news.
FetchEndsRaising(status) == IF status = "error" THEN "crashed" ELSE "post"

\* Where fetch_*_news ends when the request gave no article: the except
\* clause and the else branches all fall through to return None, None.
FetchEnds(status) == "post"

\* The seconds requests.get(url, timeout=10) may take before it returns or
\* raises; it blocks the event loop meanwhile.
FetchTimes == 0..MaxFetchTime

Fetch(resp, d) ==
    /\ pc = "fetch"
    /\ IF news_type = "sports" /\ ~Truthy(NEWS_API_KEY)
       THEN NoContent /\ UNCHANGED <<scan, response, now>>
       ELSE /\ response' = resp.status
            /\ now' = now + d
            /\ IF resp.status = "ok" /\ resp.articles # <<>>
               THEN /\ cands' = resp.articles
                    /\ pos' = 1
                    /\ pc' = "scan"
                    /\ UNCHANGED <<message, image_url>>
               ELSE /\ message' = NoMessage
                    /\ image_url' = "none"
                    /\ pc' = FetchEnds(resp.status)
                    /\ UNCHANGED scan
    /\ UNCHANGED <<config, group_ids, running, dedup, ret, news_type, send, sched,
                   hist, cycles, decided, connected, delivered>>

Select(article, title, desc, news_hash) ==
    /\ \E kept \in Record(Posted(news_type), news_hash) :
         IF news_type = "crypto"
         THEN /\ posted_crypto_news' = kept
              /\ crypto_order' = Remember(crypto_order, news_hash, kept)
              /\ UNCHANGED <<posted_sports_news, sports_order>>
         ELSE /\ posted_sports_news' = kept
              /\ sports_order' = Remember(sports_order, news_hash, kept)
              /\ UNCHANGED <<posted_crypto_news, crypto_order>>
    /\ message' = ArticleMessage(news_type, title, desc)
    /\ image_url' = ArticleImage(article)
    /\ pc' = "post"
    /\ UNCHANGED scan

Scan ==
    /\ pc = "scan"
    /\ IF pos > Len(cands)
       THEN NoContent /\ UNCHANGED <<dedup, scan>>
       ELSE LET article == cands[pos]
                title == Strip(article.title)
                desc == Strip(article.desc)
                news_hash == create_news_hash(title, desc)
            IN  IF article.title = NullText \/ article.desc = NullText
                THEN NoContent /\ UNCHANGED <<dedup, scan>>
                ELSE IF Unusable(news_type, title, desc)
                        \/ IsDuplicate(news_hash, Posted(news_type))
                THEN /\ pos' = pos + 1
                     /\ UNCHANGED <<dedup, pc, cands, message, image_url>>
                ELSE Select(article, title, desc, news_hash)
    /\ UNCHANGED <<config, group_ids, running, ret, news_type, send, sched, now,
                   hist, cycles, aux>>

\* A post operation that answers every topic with the crypto fallback.
PostMessageCrypto(msg, t) == IF msg.kind # "none" THEN msg ELSE Fallback("crypto")

\* if message: send it with its image; else the topic's fallback message with
\* an image of the topic's pool.
PostMessage(msg, t) == IF msg.kind # "none" THEN msg ELSE Fallback(t)
PostImage(msg, img) == IF msg.kind # "none" THEN img ELSE "url"

Post ==
    /\ pc = "post"
    /\ StartDispatch(PostMessage(message, news_type), PostImage(message, image_url),
                     news_type, ret)
    /\ UNCHANGED <<config, group_ids, running, dedup, scan, sched, now, hist,
                   cycles, aux>>

\* ------------------------------------------------------------------- main
\* A start that only looks at the credential.
RefusesNoToken(token, ids) == ~Truthy(token)

\* if not BOT_TOKEN: return; if not GROUP_IDS: return
Refuses(token, ids) == ~Truthy(token) \/ ids = <<>>

Main ==
    /\ pc = "main"
    /\ IF Refuses(BOT_TOKEN, GROUP_IDS)
       THEN pc' = "exit" /\ UNCHANGED group_ids
       ELSE IF ConstructorRaises(GROUP_IDS)
       THEN pc' = "crashed" /\ UNCHANGED group_ids
       ELSE pc' = "test_bot" /\ group_ids' = ParseGroupIds(GROUP_IDS)
    /\ UNCHANGED <<config, running, dedup, ret, news_type, scan, message,
                   image_url, send, sched, now, hist, cycles, aux>>

\* await bot.test_bot(), then the welcome message to every group.  The
\* awaited get_me returns, raises TelegramError (test_bot logs it and returns
\* False, main returns) or raises something else, which test_bot does not
\* catch and main does not either; it takes d seconds.  main() gets here only
\* when the constructor returned with a non-empty GROUP_IDS, which it does
\* not (ConstructorRaises): no specification below takes this step.
GetMeOutcomes == {"ok", "telegram_error", "other"}

TestBot(outcome, d) ==
    /\ pc = "test_bot"
    /\ outcome \in GetMeOutcomes
    /\ now' = now + d
    /\ IF outcome = "ok"
       THEN /\ StartDispatch(Welcome, "url", "welcome", "sched_start")
            /\ connected' = "ok"
       ELSE IF outcome = "telegram_error"
       THEN /\ pc' = "exit"
            /\ connected' = "failed"
            /\ UNCHANGED <<ret, news_type, message, image_url, send>>
       ELSE /\ pc' = "crashed"
            /\ UNCHANGED <<ret, news_type, message, image_url, send, connected>>
    /\ UNCHANGED <<config, group_ids, running, dedup, scan, sched, hist, cycles,
                   decided, response, delivered>>

\* -------------------------------------------------------------- scheduler
\* A loop that compares with > instead of >=.
DueLate(tick, last_fired, interval) == tick - last_fired > interval

\* if current_time - last_x >= X_INTERVAL * 60
Due(tick, last_fired, interval) == tick - last_fired >= interval

\* A loop that leaves last_x as it was.
AdvanceNever(last_fired, tick) == last_fired

\* last_x = current_time
Advance(last_fired, tick) == tick

Fire(t, r) ==
    /\ CallPost(t, r)
    /\ fired' = [fired EXCEPT ![t] = Append(@, now)]

SchedStart ==
    /\ pc = "sched_start"
    /\ last_crypto' = 0
    /\ last_sports' = 0
    /\ Fire("crypto", "init_sleep")
    /\ UNCHANGED <<config, group_ids, running, dedup, send, current_time, now,
                   prev_feed, cycles, aux>>

InitSleep ==
    /\ pc = "init_sleep"
    /\ now' = now + InitialPause
    /\ CallPost("sports", "loop")
    /\ fired' = [fired EXCEPT !["sports"] = Append(@, now')]
    /\ UNCHANGED <<config, group_ids, running, dedup, send, sched, prev_feed,
                   cycles, aux>>

Loop ==
    /\ pc = "loop"
    /\ IF running
       THEN pc' = "chk_crypto" /\ current_time' = now
       ELSE pc' = "exit" /\ UNCHANGED current_time
    /\ UNCHANGED <<config, group_ids, running, dedup, ret, news_type, scan,
                   message, image_url, send, last_crypto, last_sports, now, hist,
                   cycles, aux>>

CheckCrypto ==
    /\ pc = "chk_crypto"
    /\ IF Due(current_time, last_crypto, CRYPTO_INTERVAL * 60)
       THEN /\ Fire("crypto", "set_crypto")
            /\ decided' = [decided EXCEPT !["crypto"] = Append(@, current_time)]
       ELSE /\ pc' = "chk_sports"
            /\ UNCHANGED <<ret, news_type, scan, message, image_url, fired, before,
                           decided>>
    /\ UNCHANGED <<config, group_ids, running, dedup, send, sched, now, prev_feed,
                   cycles, response, connected, delivered>>

SetCrypto ==
    /\ pc = "set_crypto"
    /\ last_crypto' = Advance(last_crypto, current_time)
    /\ pc' = "chk_sports"
    /\ UNCHANGED <<config, group_ids, running, dedup, ret, news_type, scan,
                   message, image_url, send, last_sports, current_time, now, hist,
                   cycles, aux>>

CheckSports ==
    /\ pc = "chk_sports"
    /\ IF Due(current_time, last_sports, SPORTS_INTERVAL * 60)
       THEN /\ Fire("sports", "set_sports")
            /\ decided' = [decided EXCEPT !["sports"] = Append(@, current_time)]
       ELSE /\ pc' = "tick_sleep"
            /\ UNCHANGED <<ret, news_type, scan, message, image_url, fired, before,
                           decided>>
    /\ UNCHANGED <<config, group_ids, running, dedup, send, sched, now, prev_feed,
                   cycles, response, connected, delivered>>

SetSports ==
    /\ pc = "set_sports"
    /\ last_sports' = Advance(last_sports, current_time)
    /\ pc' = "tick_sleep"
    /\ UNCHANGED <<config, group_ids, running, dedup, ret, news_type, scan,
                   message, image_url, send, last_crypto, current_time, now, hist,
                   cycles, aux>>

TickSleep ==
    /\ pc = "tick_sleep"
    /\ now + TickPause <= StartTime + MaxTime
    /\ now' = now + TickPause
    /\ pc' = "loop"
    /\ UNCHANGED <<config, group_ids, running, dedup, ret, news_type, scan,
                   message, image_url, send, sched, hist, cycles, aux>>

Constructed == pc \notin {"import_error", "main", "exit", "crashed"}

\* The places where the coroutine is suspended and another one can run: the
\* awaited get_me, sends and sleeps (requests.get blocks the event loop).
AtAwait ==
    \/ pc \in {"test_bot", "init_sleep", "tick_sleep", "pause", "retry"}
    \/ pc = "send" /\ idx <= Len(group_ids)

Stop ==
    /\ Constructed
    /\ AtAwait
    /\ running
    /\ running' = FALSE
    /\ UNCHANGED <<config, group_ids, dedup, pc, ret, news_type, scan, message,
                   image_url, send, sched, now, hist, cycles, aux>>

\* An exception raised by a post operation called from start_scheduler,
\* outside the try blocks of the fetch and of the send loop: start_scheduler
\* and main have no handler, asyncio.run re-raises it, the except Exception
\* clause of __main__ logs it and the process ends.
UnexpectedError ==
    /\ pc = "post"
    /\ ret \in {"init_sleep", "loop", "set_crypto", "set_sports"}
    /\ pc' = "crashed"
    /\ UNCHANGED <<config, group_ids, running, dedup, ret, news_type, scan, message,
                   image_url, send, sched, now, hist, cycles, aux>>

\* ------------------------------------------------------ the whole program
\* config.py is imported, then main() runs.  Every non-empty GROUP_IDS makes
\* the constructor raise and the empty one makes main return, so main() is
\* the only step the program as it stands takes.
Fresh ==
    /\ running = TRUE
    /\ posted_crypto_news = {}
    /\ posted_sports_news = {}
    /\ crypto_order = <<>>
    /\ sports_order = <<>>
    /\ ret = "none"
    /\ news_type = "none"
    /\ cands = <<>>
    /\ pos = 0
    /\ message = NoMessage
    /\ image_url = "none"
    /\ idx = 0
    /\ success_count = 0
    /\ log = <<>>
    /\ last_crypto = 0
    /\ last_sports = 0
    /\ current_time = 0
    /\ now = StartTime
    /\ fired = [t \in Topics |-> <<>>]
    /\ before = {}
    /\ prev_feed = [t \in Topics |-> <<>>]
    /\ cycles = 0
    /\ decided = [t \in Topics |-> <<>>]
    /\ response = "none"
    /\ delivered = [t \in Topics |-> -1]
    /\ connected = "untested"

Init ==
    /\ \E e \in Envs :
         /\ BOT_TOKEN = e.token
         /\ NEWS_API_KEY = e.key
         /\ IF LoadRaises(e.ids)
            THEN GROUP_IDS = <<>> /\ pc = "import_error"
            ELSE GROUP_IDS = LoadGroupIds(e.ids) /\ pc = "main"
    /\ group_ids = <<>>
    /\ Fresh

Next == Main

Spec == Init /\ [][Next]_vars

\* ------------------------------------------------- the bot used on its own
\* bot = NewsBot(token), called by a program other than main() after config.py
\* was imported: the constructor returns only for a GROUP_IDS it does not
\* raise on, and leaves group_ids as it parses GROUP_IDS.  The caller passes
\* the configured credential, which Bot(token=token) takes when it is not
\* empty; NEWS_API_KEY is not read by the constructor and may be anything.
Constructs(e) ==
    /\ Truthy(e.token)
    /\ ~LoadRaises(e.ids)
    /\ ~ConstructorRaises(LoadGroupIds(e.ids))

InitConstructed ==
    /\ \E e \in Envs :
         /\ Constructs(e)
         /\ BOT_TOKEN = e.token
         /\ NEWS_API_KEY = e.key
         /\ GROUP_IDS = LoadGroupIds(e.ids)
    /\ group_ids = ParseGroupIds(GROUP_IDS)
    /\ Fresh

\* ---------------------------------------------------------- the scheduler
\* await bot.start_scheduler() on a bot just constructed, while another task
\* of the caller may await bot.stop().  pc = "exit" is start_scheduler having
\* returned.
InitSched ==
    /\ InitConstructed
    /\ pc = "sched_start"

NextSched ==
    \/ SchedStart
    \/ InitSleep
    \/ Loop
    \/ CheckCrypto
    \/ SetCrypto
    \/ CheckSports
    \/ SetSports
    \/ TickSleep
    \/ Stop
    \/ UnexpectedError
    \/ \E resp \in Responses(TickFeeds), d \in FetchTimes : Fetch(resp, d)
    \/ Scan
    \/ Post
    \/ SendDone
    \/ Return

SpecSched == InitSched /\ [][NextSched]_vars

\* ------------------------------------------- the scheduler left to itself
\* No stop request and no unexpected error: every awaited call returns, so
\* the event loop always resumes the coroutine, which is the weak fairness of
\* the program's steps.
LiveFeeds == { <<Art(1, "url")>>, <<NullDescArt, Art(1, "url")>> }

InitLive ==
    /\ InitSched
    /\ NEWS_API_KEY = "set"

NextLive ==
    \/ SchedStart
    \/ InitSleep
    \/ Loop
    \/ CheckCrypto
    \/ SetCrypto
    \/ CheckSports
    \/ SetSports
    \/ TickSleep
    \/ \E resp \in Responses(LiveFeeds), d \in FetchTimes : Fetch(resp, d)
    \/ Scan
    \/ Post
    \/ SendDone
    \/ Return

SpecLive == InitLive /\ [][NextLive]_vars /\ WF_vars(NextLive)

\* ------------------------------------- the posting operations on their own
\* A constructed bot after earlier cycles: one topic's dedup set holds n
\* hashes, added one per cycle in the order 1..n, the other topic's set is
\* still empty; post_crypto_news and post_sports_news are then called one
\* after the other.
Filled(n) == [i \in 1..n |-> ArtHash(Art(i, "url"))]
Range(f) == { f[i] : i \in DOMAIN f }
Prefills == {K - 1, K}

InitPosting ==
    /\ \E e \in Envs :
         /\ Constructs(e)
         /\ BOT_TOKEN = e.token
         /\ NEWS_API_KEY = e.key
         /\ GROUP_IDS = LoadGroupIds(e.ids)
    /\ NEWS_API_KEY = "set"
    /\ group_ids = ParseGroupIds(GROUP_IDS)
    /\ running = TRUE
    /\ \E n \in Prefills, t \in Topics :
         /\ crypto_order = (IF t = "crypto" THEN Filled(n) ELSE <<>>)
         /\ sports_order = (IF t = "sports" THEN Filled(n) ELSE <<>>)
         /\ posted_crypto_news = Range(crypto_order)
         /\ posted_sports_news = Range(sports_order)
    /\ pc = "idle"
    /\ ret = "none"
    /\ news_type = "none"
    /\ cands = <<>>
    /\ pos = 0
    /\ message = NoMessage
    /\ image_url = "none"
    /\ idx = 0
    /\ success_count = 0
    /\ log = <<>>
    /\ last_crypto = 0
    /\ last_sports = 0
    /\ current_time = 0
    /\ now = StartTime
    /\ fired = [t \in Topics |-> <<>>]
    /\ before = {}
    /\ prev_feed = [t \in Topics |-> <<>>]
    /\ cycles = 0
    /\ decided = [t \in Topics |-> <<>>]
    /\ response = "none"
    /\ delivered = [t \in Topics |-> -1]
    /\ connected = "untested"

CallCycle(t) ==
    /\ pc = "idle"
    /\ cycles < MaxCycles
    /\ cycles' = cycles + 1
    /\ CallPost(t, "idle")
    /\ UNCHANGED <<config, group_ids, running, dedup, send, sched, now, fired,
                   prev_feed, aux>>

\* The feed of a cycle, kept when it was a single article the scan can use.
Single(c) ==
    IF Len(c) = 1 /\ ~Unusable(news_type, Strip(c[1].title), Strip(c[1].desc))
    THEN c ELSE <<>>

ReturnCycle == Leave([prev_feed EXCEPT ![news_type] = Single(cands)])

NextPosting ==
    \/ \E t \in Topics : CallCycle(t)
    \/ \E resp \in Responses(PostingFeeds), d \in FetchTimes : Fetch(resp, d)
    \/ Scan
    \/ Post
    \/ SendDone
    \/ ReturnCycle

SpecPosting == InitPosting /\ [][NextPosting]_vars

\* ================================================================= claims
InCycle == pc \in {"send", "pause", "retry", "send_done"}

\* The text sends and photo sends logged for destination i of this cycle.
Delivered(i) == log[i].result.photo = "ok" \/ log[i].result.text = "ok"

\* C1: a topic never fires when less than its interval has elapsed since its
\* previous fire, the initial posts of start_scheduler included.
C1_NoEarlyFire ==
    \A t \in Topics : \A i \in 2..Len(fired[t]) :
        fired[t][i] - fired[t][i - 1] >= Interval(t)

\* C2: at startup every topic fires exactly once: once the loop runs each topic
\* has fired, and while less than one interval has passed since a topic's
\* first fire it has not fired a second time.
C2_OneStartupFire ==
    \A t \in Topics :
        /\ pc \in {"loop", "chk_crypto", "tick_sleep"} => Len(fired[t]) >= 1
        /\ (Len(fired[t]) >= 1 /\ now - fired[t][1] < Interval(t)) => Len(fired[t]) = 1

\* C3: a candidate whose fingerprint is in the topic's dedup set is skipped:
\* the scan step that looks at it changes neither the set nor the result and
\* goes on to the next candidate; the article a cycle delivers had a
\* fingerprint that was not in the set when the cycle started.
C3_DuplicateNeverDelivered ==
    /\ [](\A t \in Topics :
            (pc \in {"post", "send", "send_done"} /\ news_type = t
             /\ message.kind = "article")
            => ArtHash(cands[pos]) \notin before)
    /\ [][(pc = "scan" /\ pos <= Len(cands)
           /\ ArtHash(cands[pos]) \in Posted(news_type))
          => (UNCHANGED dedup /\ pc' = "scan" /\ pos' = pos + 1
              /\ message' = NoMessage)]_vars

C3_Witness ==
    /\ pc = "send_done"
    /\ message.kind = "article"
    /\ pos = 2
    /\ ArtHash(cands[1]) \in before
    /\ Cardinality(before) = K

\* C4: when the source returns the same single article in two consecutive
\* cycles of a topic, the second cycle finds its fingerprint in the set, sends
\* the fallback message and leaves the set as it was.
C4_RepeatedArticleFallsBack ==
    \A t \in Topics :
        (pc = "send_done" /\ news_type = t /\ Len(cands) = 1
         /\ prev_feed[t] = cands)
        => /\ ArtHash(cands[1]) \in before
           /\ message = Fallback(t)
           /\ Posted(t) = before

\* C5: whenever a fetch has returned, each topic's dedup set holds at most K
\* fingerprints.
C5_AtMostK ==
    /\ Cardinality(posted_crypto_news) <= K
    /\ Cardinality(posted_sports_news) <= K

C5_Witness ==
    /\ pc = "post"
    /\ message.kind = "article"
    /\ Cardinality(before) = K
    /\ Cardinality(Posted(news_type)) = K
    /\ Posted(news_type) # before

\* C6: when recording a fingerprint takes a set beyond K, the entry that goes
\* is the one added earliest; the new fingerprint and the K - 1 added last
\* before it stay.
C6_OldestEvicted ==
    [][\A t \in Topics :
         (pc = "scan" /\ news_type = t /\ pc' = "post" /\ message'.kind = "article"
          /\ Cardinality(Posted(t)) = K)
         => Posted(t)' = (Posted(t) \ {Order(t)[1]}) \cup {ArtHash(cands[pos])}]_vars

\* C7: when every candidate is a duplicate, or there is no candidate, the
\* cycle sends the topic's fallback message to the destinations and the
\* topic's dedup set is as it was when the cycle started.
C7_NothingNewFallsBack ==
    \A t \in Topics :
        (pc = "send_done" /\ news_type = t
         /\ \A j \in 1..Len(cands) : ArtHash(cands[j]) \in before)
        => /\ message = Fallback(t)
           /\ Posted(t) = before
           /\ Len(log) = Len(group_ids)
           /\ ret = "idle"

C7_Witness ==
    /\ pc = "send_done"
    /\ news_type = "sports"
    /\ Len(cands) = 2
    /\ \A j \in 1..Len(cands) : ArtHash(cands[j]) \in before
    /\ message = Fallback("sports")
    /\ image_url = "url"

\* C8 to C11 are about the sends of a cycle to destinations.  No constructed
\* bot has a destination (ConstructorRaises), so no behaviour of the program
\* makes a send: the four statements follow as they read on the send steps
\* above and are left unsettled.
\*
\* C8: at the end of a dispatch cycle every destination of group_ids has had
\* a send attempt, in whatever way the destinations before it ended.
C8_EveryDestinationAttempted ==
    pc = "send_done"
    => /\ Len(log) = Len(group_ids)
       /\ \A i \in 1..Len(group_ids) :
            /\ log[i].dest = group_ids[i]
            /\ (log[i].result.photo # "none" \/ log[i].result.text # "none")

\* C9: the delivered count is between 0 and the number of destinations and
\* equals the number of destinations whose first send succeeded or whose
\* text-only send succeeded after the photo send failed.
C9_DeliveredCount ==
    InCycle
    => /\ 0 <= success_count
       /\ success_count <= Len(group_ids)
       /\ success_count = Cardinality({ i \in 1..Len(log) : Delivered(i) })

\* C10: between the end of the sends to a destination and the start of the
\* send to the next destination of the cycle at least the pacing delay
\* elapses, however the earlier destination ended.
C10_PacedBetweenDestinations ==
    \A i \in 2..Len(log) : log[i].at - log[i - 1].done >= PacingDelay

\* C11: within one dispatch cycle the destinations are attempted in the order
\* of group_ids, one after the other: the attempts made so far are those of
\* the first destinations of the list, each with all its attempts finished (a
\* failed photo send has had its text fallback, unless that fallback is the
\* send being awaited), none started later than the
\* one after it, and the destination the loop is at is the next of the list.
C11_InListOrder ==
    InCycle =>
        /\ Len(log) <= Len(group_ids)
        /\ \A i \in 1..Len(log) :
             /\ log[i].dest = group_ids[i]
             /\ (log[i].result.photo = "fail" /\ ~(pc = "retry" /\ i = Len(log)))
                => log[i].result.text # "none"
             /\ log[i].at <= log[i].done
             /\ i > 1 => log[i - 1].done <= log[i].at
        /\ pc = "send" => idx = Len(log) + 1
        /\ pc \in {"pause", "retry"} => idx = Len(log)

\* C12: a topic's cycle run from the scheduler loop advances the topic's
\* last_fired whatever it delivered, nothing included: once the cycle is over
\* last_fired is the tick the topic fired in, and two successive ticks in
\* which the topic fires are at least the topic's interval apart.
C12_AdvancedAfterAnyCycle ==
    \A t \in Topics :
        /\ \A i \in 2..Len(decided[t]) :
             decided[t][i] - decided[t][i - 1] >= Interval(t)
        /\ (decided[t] # <<>> /\ ret # "set_" \o t /\ pc # "set_" \o t)
             => LastFired(t) = decided[t][Len(decided[t])]

C12_Witness ==
    \E t \in Topics :
        /\ delivered[t] = 0
        /\ Len(decided[t]) >= 2
        /\ pc = "fetch"
        /\ ret = "set_" \o t

\* C13: the value written to a topic's last_fired after its cycle is the time
\* at which the topic's dispatching completed: when crypto has just been set
\* in this tick (the sports check is next) last_crypto is the present time,
\* and when sports has just been set (the tick's pause is next) last_sports is.
C13_SetToCompletionTime ==
    /\ (pc = "chk_sports" /\ decided["crypto"] # <<>>
           /\ decided["crypto"][Len(decided["crypto"])] = current_time)
        => last_crypto = now
    /\ (pc = "tick_sleep" /\ decided["sports"] # <<>>
           /\ decided["sports"][Len(decided["sports"])] = current_time)
        => last_sports = now

\* The request of the cycle in progress ended in an exception or a non-200
\* status, or the scan stopped at an article whose title or description is
\* null.
Malformed ==
    /\ pos \in 1..Len(cands)
    /\ cands[pos].title = NullText \/ cands[pos].desc = NullText

FetchFailed ==
    \/ response \in {"error", "bad"}
    \/ pc \in {"post", "send", "pause", "retry", "send_done"} /\ Malformed

\* C14: a fetch that ends in a timeout or transport error, a non-200 status
\* or a malformed payload does not raise: the step that meets the failure
\* returns no content to the post operation, the cycle then dispatches the
\* topic's fallback message with a pool image, and it returns to the place of
\* the scheduler that called it.
C14_FetchFailureFallsBack ==
    /\ []((InCycle /\ news_type \in Topics /\ FetchFailed)
            => /\ message = Fallback(news_type)
               /\ image_url = "url"
               /\ ret \in {"init_sleep", "loop", "set_crypto", "set_sports"})
    /\ [][((pc = "fetch" /\ response' \in {"error", "bad"})
             \/ (pc = "scan" /\ Malformed /\ pc' # "scan"))
            => (pc' = "post" /\ message' = NoMessage /\ ret' = ret)]_vars

C14_Witness ==
    /\ pc = "send_done"
    /\ response = "error"
    /\ news_type = "sports"
    /\ ret = "set_sports"
    /\ message = Fallback("sports")
    /\ Len(log) = Len(group_ids)

\* C15: an unexpected error raised by a topic's post operation inside a
\* scheduling tick does not end the scheduler loop or the process: the
\* program is never ended by an error while the post operation it was in had
\* been called by a tick of the loop.
C15_TickErrorSurvived ==
    ~(pc = "crashed" /\ ret \in {"set_crypto", "set_sports"})

\* C16: when the credential is missing or the destination list is empty,
\* main is over (or still before its checks) without having constructed the
\* bot or entered the scheduler, and when the connectivity check has failed
\* main is over as well: no topic has fired, no tick has begun, no fetch and
\* no send has been made and no time has been spent.
C16_RefusedStartDoesNothing ==
    /\ (~Truthy(BOT_TOKEN) \/ GROUP_IDS = <<>>)
         => pc \in {"import_error", "main", "exit"}
    /\ connected = "failed" => pc = "exit"
    /\ (~Truthy(BOT_TOKEN) \/ GROUP_IDS = <<>> \/ connected = "failed")
         => /\ \A t \in Topics : fired[t] = <<>> /\ decided[t] = <<>> /\ Posted(t) = {}
            /\ log = <<>>
            /\ message = NoMessage
            /\ response = "none"
            /\ current_time = 0
            /\ now = StartTime

C16_Witness ==
    /\ pc = "exit"
    /\ Truthy(BOT_TOKEN)
    /\ GROUP_IDS = <<>>
    /\ connected = "untested"

\* C17: a stop request is consumed only between cycles: a dispatch cycle goes
\* on to attempt every destination whether or not stop() has been called, no
\* topic cycle starts once running is false, and the loop, when it finds
\* running false, leaves start_scheduler.
C17_StopBetweenCycles ==
    /\ [](pc = "send_done" => Len(log) = Len(group_ids))
    /\ [][fired' # fired => running]_vars
    /\ [][(pc = "loop" /\ ~running /\ pc' # pc) => pc' = "exit"]_vars

\* C18: with the credential present and a non-empty GROUP_IDS of integer ids,
\* as configuration loading produces it, startup does not end in an error,
\* and once the bot is constructed its group_ids is GROUP_IDS in order.
C18_ValidConfigStarts ==
    (Truthy(BOT_TOKEN) /\ GROUP_IDS # <<>>)
    => /\ pc # "crashed"
       /\ Constructed => group_ids = GROUP_IDS

\* C19: the fingerprint of the article the scan selected is recorded before
\* any delivery attempt of the cycle and is in the topic's dedup set all
\* through the dispatch, up to its end, whatever the sends deliver.
C19_SelectedStaysRecorded ==
    (InCycle /\ news_type \in Topics /\ message.kind = "article")
    => ArtHash(cands[pos]) \in Posted(news_type)

\* The last tick the time horizon of the model allows.
AtHorizon == pc = "tick_sleep" /\ now + TickPause > StartTime + MaxTime

\* C20: with every call returning and no stop request, the loop keeps ticking
\* (every tick reaches its pause and, up to the time horizon, the next tick),
\* a topic fires in a tick exactly when the tick's start time is at least one
\* interval after the topic's last_fired, so each topic fires again and again
\* (crypto at least twice and sports three times from the loop within the
\* horizon), and when sports is evaluated the tick's crypto cycle is over.
C20_TicksAndFires ==
    /\ [][\A t \in Topics :
            (pc = "chk_" \o t /\ pc' # pc)
            => ((current_time - LastFired(t) >= Interval(t))
                <=> (decided'[t] = Append(decided[t], current_time)
                     /\ pc' = "fetch" /\ news_type' = t))]_vars
    /\ [](pc = "chk_sports"
          => /\ ret = "none" /\ news_type = "none" /\ log = <<>>
             /\ current_time - last_crypto < CRYPTO_INTERVAL * 60)
    /\ [](pc = "tick_sleep" => \A t \in Topics : current_time - LastFired(t) < Interval(t))
    /\ (pc = "loop") ~> AtHorizon
    /\ (pc = "loop") ~> (Len(decided["crypto"]) >= 2 /\ Len(decided["sports"]) >= 3)

C20_Witness ==
    /\ AtHorizon
    /\ Len(decided["crypto"]) = 2
    /\ Len(decided["sports"]) = 3
    /\ decided["crypto"][2] - decided["crypto"][1] = CRYPTO_INTERVAL * 60

====
